---- MODULE Spec2Model ----
(***************************************************************************)
(* Model of the moonlib ephemeris/time core (svenschmidt75/moon_android).   *)
(*                                                                         *)
(* Numeric representation (f64 in the source is modelled in fixed point):  *)
(*   - angles are integers counting arc minutes (1 degree = 60 units);     *)
(*   - a Julian Day is a record [day, sec]: day + sec/86400 days, with     *)
(*     0 <= sec < 86400 (a two-limb fixed point number, resolution 1 s);   *)
(*   - a duration in hours is an integer number of seconds;                *)
(*   - sines and cosines are integers in thousandths.                      *)
(***************************************************************************)
EXTENDS Integers, Sequences, FiniteSets, TLC

VARIABLES
    pc,         \* position of the running call
    kind,       \* InputKind of the solver call: "Rise", "Set", "Transit"
    jd,         \* query Julian Day
    timezone_offset,
    target_altitude,
    longitude_observer,
    latitude_observer,
    jd_min,     \* solver: lower end of the day window
    jd_max,     \* solver: upper end of the day window
    prev_jd,    \* solver: trial Julian Day
    iter,       \* solver: loop counter
    bodies,     \* history: number of executions of the loop body
    last,       \* history: what the last loop body computed
    exit,       \* history: how the loop was left
    outcome,    \* result of the solver call
    table,      \* the slice or table searched; the ephemeris of a pair of calls
    arg,        \* the argument of a function call
    ret,        \* the result of a function call, or of the first call of a pair
    locals      \* concurrent calls: the local variables of every call

vars == <<pc, kind, jd, timezone_offset, target_altitude, longitude_observer,
          latitude_observer, jd_min, jd_max, prev_jd, iter, bodies, last, exit,
          outcome, table, arg, ret, locals>>

lookupVars == <<table, arg, ret>>

solverVars == <<kind, jd, timezone_offset, target_altitude,
                longitude_observer, latitude_observer, jd_min, jd_max,
                prev_jd, iter, bodies, last, exit, outcome>>

----------------------------------------------------------------------------
(* Fixed point helpers *)

Abs(x) == IF x < 0 THEN -x ELSE x

\* f64::trunc of the quotient a / b, b # 0 (rounds toward zero)
TruncDiv(a, b) ==
    LET q == Abs(a) \div Abs(b)
    IN  IF (a < 0) = (b < 0) THEN q ELSE -q

\* the f64 remainder operator %: the result has the sign of the dividend
Fmod(x, m) == IF x >= 0 THEN x % m ELSE -((-x) % m)

\* d degrees in angle units (arc minutes)
Deg(d) == 60 * d

----------------------------------------------------------------------------
(* constants.rs *)

SEC_PER_DAY == 24 * 60 * 60

\* x * SIDERIAL_TO_SOLAR_TIME, SIDERIAL_TO_SOLAR_TIME = 23.9344696 / 24.0
\* = 29918087 / 30000000; the product is split so that no intermediate
\* value exceeds 32 bits, and truncated toward zero at 1 unit of x.
MulSiderialToSolar(x) ==
    LET a == Abs(x)
        r == (a * 2991 + (a * 8087) \div 10000) \div 3000
    IN  IF x < 0 THEN -r ELSE r

----------------------------------------------------------------------------
(* util/degrees.rs *)

\* Degrees::to_hours: degrees * 24/360 hours; 1 arc minute = 4 s of time
to_hours(a) == 4 * a

map_to_0_to_360(a) ==
    LET m == Fmod(a, Deg(360))
    IN  IF m < 0 THEN m + Deg(360) ELSE m

\* f64 values below the grid: an angle in units of 1 / Fine arc minute.
\* An f64 has a fixed number of significant bits, so its resolution is
\* finer near 0 than near 360: here a value of magnitude below 256 degrees
\* is held to 1 / Fine arc minute and a value from 256 degrees on to one
\* arc minute only.
Fine == 4

\* the f64 nearest to v (ties to even) for a sum or difference v
RoundF64(v) ==
    IF Abs(v) < Deg(256) * Fine THEN v
    ELSE LET a == Abs(v)
             lo == (a \div Fine) * Fine
             r == a - lo
             up == \/ 2 * r > Fine
                   \/ 2 * r = Fine /\ (a \div Fine) % 2 = 1
             n == IF up THEN lo + Fine ELSE lo
         IN  IF v < 0 THEN -n ELSE n

\* Degrees::map_to_0_to_360 on f64 values in units of 1 / Fine arc minute:
\* % is exact, m += 360.0 rounds
map_to_0_to_360_f64(x) ==
    LET m == Fmod(x, Deg(360) * Fine)
    IN  IF m < 0 THEN RoundF64(m + Deg(360) * Fine) ELSE m

map_neg180_to_180(a) ==
    IF a < -Deg(180) THEN Deg(180) + Fmod(a, Deg(180))
    ELSE IF a > Deg(180) THEN -Deg(180) + Fmod(a, Deg(180))
    ELSE a

----------------------------------------------------------------------------
(* date/date.rs and date/jd.rs *)

\* Date { year, month, day }: day is split into its whole part and the
\* fraction of the day in seconds
Date(y, m, d, s) == [year |-> y, month |-> m, day |-> d, dsec |-> s]

JD(d, s) == [day |-> d + (s \div SEC_PER_DAY), sec |-> s % SEC_PER_DAY]

JDLeq(a, b) == a.day < b.day \/ (a.day = b.day /\ a.sec <= b.sec)

JDLess(a, b) == a.day < b.day \/ (a.day = b.day /\ a.sec < b.sec)

\* JD::add_hours: jd += delta_t * HOURS_TO_DAYS (the hours in seconds)
add_hours(j, hours) == JD(j.day, j.sec + hours)

\* is_julian_calendar with the 5th of October 1582 still Julian:
\* self.day <= 5.0 in place of self.day < 5.0
is_julian_calendar_at_5th(date) ==
    \/ date.year < 1582
    \/ /\ date.year = 1582
       /\ \/ date.month < 10
          \/ /\ date.month = 10
             /\ (date.day < 5 \/ (date.day = 5 /\ date.dsec = 0))

is_julian_calendar(date) ==
    \/ date.year < 1582
    \/ /\ date.year = 1582
       /\ \/ date.month < 10
          \/ date.month = 10 /\ date.day < 5

\* Date::is_leap without the Julian rule
is_leap_gregorian(y) ==
    IF Fmod(y, 100) = 0 THEN Fmod(y, 400) = 0 ELSE Fmod(y, 4) = 0

\* Date::is_leap; % on i16 has the sign of the dividend
is_leap(y) ==
    IF is_julian_calendar(Date(y, 1, 1, 0)) THEN Fmod(y, 4) = 0
    ELSE IF Fmod(y, 100) = 0 THEN Fmod(y, 400) = 0
    ELSE Fmod(y, 4) = 0

\* the correction term b of JD::from_date
from_date_b(date) ==
    LET yy == IF date.month < 3 THEN date.year - 1 ELSE date.year
    IN  IF ~is_julian_calendar(date)
        THEN LET a == TruncDiv(yy, 100) IN 2 - a + TruncDiv(a, 4)
        ELSE 0

from_date(date) ==
    LET y  == date.year
        m  == date.month
        mm == IF m < 3 THEN m + 12 ELSE m
        yy == IF m < 3 THEN y - 1 ELSE y
        b  == from_date_b(date)
        \* (365.25 * (yy + 4716)).trunc() + (30.6001 * (mm + 1)).trunc()
        whole == TruncDiv(36525 * (yy + 4716), 100)
                 + TruncDiv(306001 * (mm + 1), 10000)
                 + date.day + b
    IN  \* ... - 1524.5
        JD(whole - 1525, date.dsec + SEC_PER_DAY \div 2)

\* to_calendar_date with the calendars switching one day late:
\* z <= 2_299_161.0 in place of z < 2_299_161.0
to_calendar_date_late_switch(j) ==
    LET jd_mod == JD(j.day, j.sec + SEC_PER_DAY \div 2)
        neg == jd_mod.day < 0 /\ jd_mod.sec > 0
        z   == IF neg THEN jd_mod.day + 1 ELSE jd_mod.day
        f   == IF neg THEN jd_mod.sec - SEC_PER_DAY ELSE jd_mod.sec
        a   == IF z <= 2299161 THEN z
               ELSE LET alpha == TruncDiv(100 * z - 186721625, 3652425)
                    IN  z + 1 + alpha - TruncDiv(alpha, 4)
        b   == a + 1524
        c   == TruncDiv(100 * b - 12210, 36525)
        d   == TruncDiv(36525 * c, 100)
        e   == TruncDiv(10000 * (b - d), 306001)
        day == b - d - TruncDiv(306001 * e, 10000)
        m   == IF e < 14 THEN e - 1 ELSE e - 13
        year == IF m > 2 THEN c - 4716 ELSE c - 4715
    IN  Date(year, m, day, f)

to_calendar_date(j) ==
    LET jd_mod == JD(j.day, j.sec + SEC_PER_DAY \div 2)
        \* trunc() rounds toward zero: for a negative value with a fraction
        \* the whole part is one more than the floor
        neg == jd_mod.day < 0 /\ jd_mod.sec > 0
        z   == IF neg THEN jd_mod.day + 1 ELSE jd_mod.day
        f   == IF neg THEN jd_mod.sec - SEC_PER_DAY ELSE jd_mod.sec
        a   == IF z < 2299161 THEN z
               ELSE LET alpha == TruncDiv(100 * z - 186721625, 3652425)
                    IN  z + 1 + alpha - TruncDiv(alpha, 4)
        b   == a + 1524
        c   == TruncDiv(100 * b - 12210, 36525)
        d   == TruncDiv(36525 * c, 100)
        e   == TruncDiv(10000 * (b - d), 306001)
        day == b - d - TruncDiv(306001 * e, 10000)
        m   == IF e < 14 THEN e - 1 ELSE e - 13
        year == IF m > 2 THEN c - 4716 ELSE c - 4715
    IN  Date(year, m, day, f)

----------------------------------------------------------------------------
(* Trigonometry on the 15 degree grid, in thousandths *)

SinTab == <<0, 259, 500, 707, 866, 966, 1000>>

\* f64::sin of an angle in [-90, 90] degrees that lies on the grid
sin(a) ==
    LET k == Abs(a) \div Deg(15)
    IN  IF a < 0 THEN -SinTab[k + 1] ELSE SinTab[k + 1]

\* f64::cos of an angle in [-180, 180] degrees that lies on the grid
cos(a) ==
    LET b == Abs(a)
    IN  IF b <= Deg(90) THEN sin(Deg(90) - b) ELSE -sin(b - Deg(90))

\* f64::acos of num / den (den > 0, -den <= num <= den), converted to
\* degrees and rounded down to the grid: the greatest grid angle g in
\* [0, 180] with cos(g) >= num / den; acos(1) = 0 and acos(-1) = 180
acos(num, den) ==
    LET G == {g \in 0..12 : cos(Deg(15) * g) * den >= 1000 * num}
    IN  Deg(15) * (CHOOSE g \in G : \A h \in G : h <= g)

----------------------------------------------------------------------------
(* earth.rs *)

\* mean_siderial_time: 280.46061836 + 360.98564736629 * (jd - 2451545.0)
\* degrees mapped to [0, 360): 16828 arc minutes at J2000, 59.1388 arc
\* minutes per whole day beyond full turns, 0.250684 arc minutes per
\* second. The terms in t^2 and t^3 are below the resolution.
mean_siderial_time(j) ==
    LET ddays == j.day - 2451545
        a == 16828 + (ddays * 591388) \div 10000
             + (j.sec * 250 + (j.sec * 684) \div 1000) \div 1000
    IN  map_to_0_to_360(a)

\* apparent_siderial_time: the mean siderial time plus the nutation in
\* longitude times cos(eps), at most 0.3 arc minutes: below the resolution
apparent_siderial_time(j) == mean_siderial_time(j)

local_siderial_time(siderial_time, lon) == map_to_0_to_360(siderial_time - lon)

----------------------------------------------------------------------------
(* moon/rise_set_transit.rs *)

MAX_ITER == 10

\* 1.0 / 60.0 hours, in seconds
delta_t_threshold == 3600 \div 60

Time(j) == [tag |-> "Time", jd |-> j]
NeverRises == [tag |-> "NeverRises"]
NeverSets == [tag |-> "NeverSets"]
\* the panic of unreachable!()
Panic == [tag |-> "Panic"]
None == [tag |-> "None"]

\* -timezone_offset on i8 (the negation is applied before the cast to
\* f64): i8::MIN has no negative; a build without overflow checks wraps it
\* to itself, a build with overflow checks panics
neg_i8(x) == IF x = -128 THEN -128 ELSE -x

bound_julian_day(j, tz) ==
    LET date == to_calendar_date(j)
        midday == Date(date.year, date.month, date.day, SEC_PER_DAY \div 2)
        jd_midday == add_hours(from_date(midday), neg_i8(tz) * 3600)
    IN  [min |-> add_hours(jd_midday, -12 * 3600),
         midday |-> jd_midday,
         max |-> add_hours(jd_midday, 12 * 3600)]

\* cos H0 = (sin h0 - sin(lat) sin(decl)) / (cos(lat) cos(decl)) as the
\* fraction num / den, den > 0
cos_hour_angle(h0, lat, decl) ==
    [num |-> 1000 * sin(h0) - sin(lat) * sin(decl),
     den |-> cos(lat) * cos(decl)]

\* cos_hour_angle < -1.0
CosBelowMinusOneInclusive(c) == c.num <= -c.den

CosBelowMinusOne(c) == c.num < -c.den

\* cos_hour_angle > 1.0
CosAboveOne(c) == c.num > c.den

\* the local hour angle at the trial time
hour_angle2(j, lon, ra) ==
    map_neg180_to_180(
        local_siderial_time(apparent_siderial_time(j), lon) - ra)

\* the difference with the arms of Rise and Set exchanged
delta_hour_angle_swapped(k, h2, h) ==
    CASE k = "Rise" -> map_neg180_to_180(h2 - h)
      [] k = "Set" -> map_neg180_to_180(h2 + h)
      [] k = "Transit" -> h2

delta_hour_angle(k, h2, h) ==
    CASE k = "Rise" -> map_neg180_to_180(h2 + h)
      [] k = "Set" -> map_neg180_to_180(h2 - h)
      [] k = "Transit" -> h2

\* loop exit test of the correction loop
LoopExit(correction, i) ==
    Abs(correction) < delta_t_threshold \/ i > MAX_ITER

\* the check of the day without its upper end
InWindowLowerOnly(j, lo, hi) == JDLeq(lo, j)

InWindow(j, lo, hi) == JDLeq(lo, j) /\ JDLeq(j, hi)

\* the match after the loop, with the arms of Rise and Set exchanged
FinalResultSwapped(k, j, lo, hi) ==
    IF InWindow(j, lo, hi) THEN Time(j)
    ELSE CASE k = "Rise" -> NeverSets
           [] k = "Set" -> NeverRises
           [] k = "Transit" -> Panic

\* the match after the loop
FinalResult(k, j, lo, hi) ==
    IF InWindow(j, lo, hi) THEN Time(j)
    ELSE CASE k = "Rise" -> NeverRises
           [] k = "Set" -> NeverSets
           [] k = "Transit" -> Panic

----------------------------------------------------------------------------
(* tabular/src/time/leap_second_data.rs *)

\* LeapSecondCoefficient { jd, leap_seconds, base_mjd, coefficient }:
\* jd is a Julian Day record, leap_seconds counts 1e-7 s, base_mjd whole
\* days and coefficient 1e-7 s per day
Leap(d, s, l, b, c) ==
    [jd |-> JD(d, s), leap_seconds |-> l, base_mjd |-> b, coefficient |-> c]

LEAP_SECOND_DATA == <<
    Leap(2437300, 43200, 14228180, 37300, 12960),
    Leap(2437512, 43200, 13728180, 37300, 0),
    Leap(2437665, 43200, 18458580, 37665, 0),
    Leap(2438334, 43200, 19458580, 37665, 0),
    Leap(2438395, 43200, 32401300, 38761, 0),
    Leap(2438486, 43200, 33401300, 38761, 0),
    Leap(2438639, 43200, 34401300, 38761, 0),
    Leap(2438761, 43200, 35401300, 38761, 0),
    Leap(2438820, 43200, 36401300, 38761, 0),
    Leap(2438942, 43200, 37401300, 38761, 0),
    Leap(2439004, 43200, 38401300, 38761, 0),
    Leap(2439126, 43200, 43131700, 39126, 0),
    Leap(2439887, 43200, 42131700, 39126, 0),
    Leap(2441317, 43200, 100000000, 41317, 0),
    Leap(2441499, 43200, 110000000, 41317, 0),
    Leap(2441683, 43200, 120000000, 41317, 0),
    Leap(2442048, 43200, 130000000, 41317, 0),
    Leap(2442413, 43200, 140000000, 41317, 0),
    Leap(2442778, 43200, 150000000, 41317, 0),
    Leap(2443144, 43200, 160000000, 41317, 0),
    Leap(2443509, 43200, 170000000, 41317, 0),
    Leap(2443874, 43200, 180000000, 41317, 0),
    Leap(2444239, 43200, 190000000, 41317, 0),
    Leap(2444786, 43200, 200000000, 41317, 0),
    Leap(2445151, 43200, 210000000, 41317, 0),
    Leap(2445516, 43200, 220000000, 41317, 0),
    Leap(2446247, 43200, 230000000, 41317, 0),
    Leap(2447161, 43200, 240000000, 41317, 0),
    Leap(2447892, 43200, 250000000, 41317, 0),
    Leap(2448257, 43200, 260000000, 41317, 0),
    Leap(2448804, 43200, 270000000, 41317, 0),
    Leap(2449169, 43200, 280000000, 41317, 0),
    Leap(2449534, 43200, 290000000, 41317, 0),
    Leap(2450083, 43200, 300000000, 41317, 0),
    Leap(2450630, 43200, 310000000, 41317, 0),
    Leap(2451179, 43200, 320000000, 41317, 0),
    Leap(2453736, 43200, 330000000, 41317, 0),
    Leap(2454832, 43200, 340000000, 41317, 0),
    Leap(2456109, 43200, 350000000, 41317, 0),
    Leap(2457204, 43200, 360000000, 41317, 0),
    Leap(2457754, 43200, 370000000, 41317, 0)
>>

\* DeltaTValue { jd, delta_t } is ordered by jd
DeltaTValue_partial_cmp(a, b) ==
    IF JDLess(a.jd, b.jd) THEN "Less"
    ELSE IF JDLess(b.jd, a.jd) THEN "Greater"
    ELSE "Equal"

\* the order of LeapSecondCoefficient with leap_seconds deciding between
\* equal jd
partial_cmp_all_fields(ord, a, b) ==
    CASE ord = "i32" ->
            IF a < b THEN "Less" ELSE IF a > b THEN "Greater" ELSE "Equal"
      [] ord = "LeapSecondCoefficient" ->
            IF JDLess(a.jd, b.jd) THEN "Less"
            ELSE IF JDLess(b.jd, a.jd) THEN "Greater"
            ELSE IF a.leap_seconds < b.leap_seconds THEN "Less"
            ELSE IF a.leap_seconds > b.leap_seconds THEN "Greater"
            ELSE "Equal"
      [] ord = "DeltaTValue" -> DeltaTValue_partial_cmp(a, b)

\* PartialOrd of an element type: i32, or a table entry ordered by jd
partial_cmp(ord, a, b) ==
    CASE ord = "i32" ->
            IF a < b THEN "Less" ELSE IF a > b THEN "Greater" ELSE "Equal"
      [] ord = "LeapSecondCoefficient" ->
            IF JDLess(a.jd, b.jd) THEN "Less"
            ELSE IF JDLess(b.jd, a.jd) THEN "Greater"
            ELSE "Equal"
      [] ord = "DeltaTValue" -> DeltaTValue_partial_cmp(a, b)

----------------------------------------------------------------------------
(* util/binary_search.rs *)

\* a >= b and a <= b of PartialOrd
ge(ord, a, b) == partial_cmp(ord, a, b) \in {"Greater", "Equal"}

le(ord, a, b) == partial_cmp(ord, a, b) \in {"Less", "Equal"}

\* upper_bound with the loop test *to_find > data[mid_idx]: a lower bound
\* search followed by the single step of lines 19-21
upper_bound_strict(data, to_find, ord) ==
    LET n == Len(data)
        loop[min_idx \in 0..n, max_idx \in 0..n] ==
            IF min_idx < max_idx
            THEN LET mid_idx == min_idx + (max_idx - min_idx) \div 2
                 IN  IF ~le(ord, to_find, data[mid_idx + 1])
                     THEN loop[mid_idx + 1, max_idx]
                     ELSE loop[min_idx, mid_idx]
            ELSE min_idx
        m == loop[0, n]
    IN  IF m < n /\ le(ord, data[m + 1], to_find) THEN m + 1 ELSE m

\* upper_bound: indices are those of the slice (from 0); data[i] of the
\* source is data[i + 1] here
upper_bound(data, to_find, ord) ==
    LET n == Len(data)
        loop[min_idx \in 0..n, max_idx \in 0..n] ==
            IF min_idx < max_idx
            THEN LET mid_idx == min_idx + (max_idx - min_idx) \div 2
                 IN  IF ge(ord, to_find, data[mid_idx + 1])
                     THEN loop[mid_idx + 1, max_idx]
                     ELSE loop[min_idx, mid_idx]
            ELSE min_idx
        m == loop[0, n]
    IN  IF m < n /\ le(ord, data[m + 1], to_find) THEN m + 1 ELSE m

----------------------------------------------------------------------------
(* jd.rs: the functions on plain f64 values that time.rs uses *)

\* jd_to_mjd: jd - 2_400_000.5
jd_to_mjd(j) == JD(j.day - 2400000, j.sec - SEC_PER_DAY \div 2)

jd_is_julian_calendar(y, m, d) ==
    y < 1582 \/ (y = 1582 /\ (m < 10 \/ (m = 10 /\ d < 5)))

\* from_date(y, m, d): d is the whole day, s the fraction in seconds
jd_from_date(y, m, d, s) ==
    LET mm == IF m < 3 THEN m + 12 ELSE m
        yy == IF m < 3 THEN y - 1 ELSE y
        b  == IF ~jd_is_julian_calendar(y, m, d)
              THEN LET a == TruncDiv(yy, 100) IN 2 - a + TruncDiv(a, 4)
              ELSE 0
        whole == TruncDiv(36525 * (yy + 4716), 100)
                 + TruncDiv(306001 * (mm + 1), 10000)
                 + d + b
    IN  JD(whole - 1525, s + SEC_PER_DAY \div 2)

\* to_calendar_date(jd) -> (year, month, day): same steps as
\* JD::to_calendar_date
jd_to_calendar_date(j) ==
    LET jd_mod == JD(j.day, j.sec + SEC_PER_DAY \div 2)
        neg == jd_mod.day < 0 /\ jd_mod.sec > 0
        z   == IF neg THEN jd_mod.day + 1 ELSE jd_mod.day
        f   == IF neg THEN jd_mod.sec - SEC_PER_DAY ELSE jd_mod.sec
        a   == IF z < 2299161 THEN z
               ELSE LET alpha == TruncDiv(100 * z - 186721625, 3652425)
                    IN  z + 1 + alpha - TruncDiv(alpha, 4)
        b   == a + 1524
        c   == TruncDiv(100 * b - 12210, 36525)
        d   == TruncDiv(36525 * c, 100)
        e   == TruncDiv(10000 * (b - d), 306001)
        day == b - d - TruncDiv(306001 * e, 10000)
        m   == IF e < 14 THEN e - 1 ELSE e - 13
        year == IF m > 2 THEN c - 4716 ELSE c - 4715
    IN  Date(year, m, day, f)

\* the i16 remainder operator %: the result has the sign of the dividend
jd_is_leap(y) ==
    IF jd_is_julian_calendar(y, 1, 1) THEN Fmod(y, 4) = 0
    ELSE IF Fmod(y, 100) = 0 THEN Fmod(y, 400) = 0
    ELSE Fmod(y, 4) = 0

\* a Julian Day in hundredths of a day
CentiDays(j) == j.day * 100 + j.sec \div 864

\* fractional_year(y, m, d), in thousandths of a year:
\* y + (jd - jd2) / days_in_year
jd_fractional_year(y, m, d, s) ==
    LET days_in_year == IF jd_is_leap(y) THEN 366 ELSE 365
        j  == jd_from_date(y, m, d, s)
        j2 == jd_from_date(y, 1, 1, 0)
    IN  1000 * y + TruncDiv(10 * (CentiDays(j) - CentiDays(j2)), days_in_year)

----------------------------------------------------------------------------
(* time.rs *)

\* (mjd - base_mjd) * coefficient, in 1e-7 s
DriftTerm(mjd, base_mjd, coefficient) ==
    (mjd.day - base_mjd) * coefficient
    + TruncDiv(mjd.sec * coefficient, SEC_PER_DAY)

\* the guard jd >= LEAP_SECOND_DATA[0].jd, left out
AtOrAfterFirstAlways(tbl, j) == TRUE

\* the guard jd >= LEAP_SECOND_DATA[0].jd
AtOrAfterFirst(tbl, j) == ~JDLess(j, tbl[1].jd)

\* cumulative_leap_seconds: the result records the value (1e-7 s), whether
\* upper_bound was called and the index of the table entry used (-1: none);
\* idx - 1 with idx = 0 is the panic of the usize subtraction
cumulative_leap_seconds(tbl, j) ==
    LET last_idx == Len(tbl) - 1
        searched == AtOrAfterFirst(tbl, j) /\ JDLess(j, tbl[last_idx + 1].jd)
        to_find == [jd |-> j, leap_seconds |-> 0, base_mjd |-> 0,
                    coefficient |-> 0]
        idx == IF searched
               THEN upper_bound(tbl, to_find, "LeapSecondCoefficient")
               ELSE last_idx
        leap_item == tbl[idx]
    IN  IF AtOrAfterFirst(tbl, j)
        THEN IF idx < 1
             THEN [tag |-> "Panic", searched |-> searched, item |-> -1]
             ELSE [tag |-> "Ok",
                   value |-> leap_item.leap_seconds
                             + DriftTerm(jd_to_mjd(j), leap_item.base_mjd,
                                         leap_item.coefficient),
                   searched |-> searched,
                   item |-> idx - 1]
        ELSE [tag |-> "Ok", value |-> 0, searched |-> FALSE, item |-> -1]

\* the epochs of the polynomial expressions: y < below selects the
\* expression in u = (y - reference) / 100; the last one has no upper end
Epochs == <<
    [below |-> -500, reference |-> 1820],
    [below |-> 500, reference |-> 0],
    [below |-> 1600, reference |-> 1000],
    [below |-> 1700, reference |-> 1600],
    [below |-> 1800, reference |-> 1700],
    [below |-> 1860, reference |-> 1800],
    [below |-> 1900, reference |-> 1860],
    [below |-> 1920, reference |-> 1900],
    [below |-> 1941, reference |-> 1920],
    [below |-> 1961, reference |-> 1950],
    [below |-> 1986, reference |-> 1975],
    [below |-> 2005, reference |-> 2000],
    [below |-> 2050, reference |-> 2000],
    [below |-> 2150, reference |-> 1820],
    [below |-> 32768, reference |-> 1820] >>

\* index of the if/else-if arm taken for the year y
EpochOf(y) == CHOOSE k \in 1..Len(Epochs) :
                 /\ y < Epochs[k].below
                 /\ \A i \in 1..(k - 1) : ~(y < Epochs[i].below)

SecondsBetween(a, b) == (a.day - b.day) * SEC_PER_DAY + a.sec - b.sec

\* the interpolation taken from the far end of the bracket:
\* (curr.jd - jd) in place of (jd - prev.jd)
InterpolateFromCurr(j, prev, curr) ==
    IF SecondsBetween(curr.jd, prev.jd) = 0 THEN "not finite"
    ELSE LET q == TruncDiv(1000 * SecondsBetween(curr.jd, j),
                           SecondsBetween(curr.jd, prev.jd))
         IN  TruncDiv(q * (curr.delta_t - prev.delta_t), 1000) + prev.delta_t

\* (jd - prev.jd) / (curr.jd - prev.jd) * (curr.delta_t - prev.delta_t)
\* + prev.delta_t, delta_t in ms, the quotient in thousandths
\* With curr.jd = prev.jd the f64 quotient is infinite or NaN, and so is
\* the result: no number, and no panic.
Interpolate(j, prev, curr) ==
    IF SecondsBetween(curr.jd, prev.jd) = 0 THEN "not finite"
    ELSE LET q == TruncDiv(1000 * SecondsBetween(j, prev.jd),
                           SecondsBetween(curr.jd, prev.jd))
         IN  TruncDiv(q * (curr.delta_t - prev.delta_t), 1000) + prev.delta_t

\* the y the polynomial branch works with:
\* fractional_year(y, m, d).trunc() as i16
TruncatedYear(j) ==
    LET date == jd_to_calendar_date(j)
    IN  TruncDiv(jd_fractional_year(date.year, date.month, date.day,
                                    date.dsec), 1000)

\* delta_t. Table branch: the indices of prev and curr and the value (ms).
\* Polynomial branch: the arm taken, its reference year and u in 1e-5
\* (u = (y - reference) / 100 with the integer y); the value of the
\* polynomial in u is not evaluated.
delta_t(tbl, j) ==
    IF ~JDLess(j, tbl[1].jd) /\ JDLess(j, tbl[Len(tbl)].jd)
    THEN LET to_find == [jd |-> j, delta_t |-> 0]
             idx == upper_bound(tbl, to_find, "DeltaTValue")
         IN  IF idx < 1 \/ idx >= Len(tbl)
             THEN [branch |-> "panic"]
             ELSE [branch |-> "table", prev |-> idx - 1, curr |-> idx,
                   value |-> Interpolate(j, tbl[idx], tbl[idx + 1])]
    ELSE LET y == TruncatedYear(j)
             k == EpochOf(y)
         IN  [branch |-> "poly", y |-> y, epoch |-> k,
              reference |-> Epochs[k].reference,
              u |-> 1000 * (y - Epochs[k].reference)]

\* ut1_to_tt: returns its argument
ut1_to_tt(j) == j

----------------------------------------------------------------------------
(* Inputs of the solver *)

NQuery == 1
MaxTZ == 1

KindSet == {"Rise", "Set", "Transit"}

\* query instants: 2000-03-23 0h UTC and every 9 hours after it
QuerySet == {JD(2451626, SEC_PER_DAY \div 2 + 9 * 3600 * k) : k \in 0..NQuery}

TimezoneSet == (-MaxTZ)..MaxTZ

AltitudeSet == {Deg(0), Deg(15)}

LongitudeSet == {Deg(-15)}

LatitudeSet == {Deg(0), Deg(60)}

\* what the ephemeris (geocentric_longitude, geocentric_latitude,
\* true_obliquity, ecliptical_2_equatorial) may give for the trial JD
RASet == {Deg(180), Deg(195)}

DeclSet == {Deg(-60), Deg(-30), Deg(30), Deg(60)}

NoLast == [ra |-> 0, decl |-> 0]

SolverInit ==
    /\ pc = "call"
    /\ kind \in KindSet
    /\ jd \in QuerySet
    /\ timezone_offset \in TimezoneSet
    /\ target_altitude \in AltitudeSet
    /\ longitude_observer \in LongitudeSet
    /\ latitude_observer \in LatitudeSet
    /\ jd_min = JD(0, 0)
    /\ jd_max = JD(0, 0)
    /\ prev_jd = JD(0, 0)
    /\ iter = 0
    /\ bodies = 0
    /\ last = NoLast
    /\ exit = "none"
    /\ outcome = None
    /\ table = <<>>
    /\ arg = 0
    /\ ret = 0
    /\ locals = <<>>

\* calculate_rise_set_transit, lines 151-164: the day window and the
\* start of the iteration
Enter ==
    /\ pc = "call"
    /\ LET w == bound_julian_day(jd, timezone_offset)
       IN  /\ jd_min' = w.min
           /\ prev_jd' = w.midday
           /\ jd_max' = w.max
    /\ iter' = 0
    /\ pc' = "loop"
    /\ UNCHANGED <<kind, jd, timezone_offset, target_altitude,
                   longitude_observer, latitude_observer, bodies, last, exit,
                   outcome, table, arg, ret, locals>>

\* one execution of the loop body, lines 166-212, for the right ascension
\* and declination the ephemeris gives at the trial JD
LoopBody(ra, decl) ==
    LET c  == cos_hour_angle(target_altitude, latitude_observer, decl)
        h  == acos(c.num, c.den)
        h2 == hour_angle2(prev_jd, longitude_observer, ra)
        d  == delta_hour_angle(kind, h2, h)
        correction == MulSiderialToSolar(to_hours(d))
    IN  /\ pc = "loop"
        /\ bodies' = bodies + 1
        /\ IF CosBelowMinusOne(c) THEN
               /\ outcome' = NeverRises
               /\ pc' = "done"
               /\ last' = [ra |-> ra, decl |-> decl]
               /\ UNCHANGED <<prev_jd, iter, exit>>
           ELSE IF CosAboveOne(c) THEN
               /\ outcome' = NeverSets
               /\ pc' = "done"
               /\ last' = [ra |-> ra, decl |-> decl]
               /\ UNCHANGED <<prev_jd, iter, exit>>
           ELSE
               /\ prev_jd' = add_hours(prev_jd, -correction)
               /\ last' = [ra |-> ra, decl |-> decl]
               /\ IF LoopExit(correction, iter)
                  THEN /\ pc' = "check"
                       /\ exit' = IF Abs(correction) < delta_t_threshold
                                  THEN "converged" ELSE "limit"
                       /\ iter' = iter
                  ELSE /\ pc' = "loop"
                       /\ iter' = iter + 1
                       /\ exit' = exit
               /\ UNCHANGED outcome
        /\ UNCHANGED <<kind, jd, timezone_offset, target_altitude,
                       longitude_observer, latitude_observer, jd_min, jd_max,
                       table, arg, ret, locals>>

Iterate == \E ra \in RASet, decl \in DeclSet : LoopBody(ra, decl)

\* lines 214-225: check whether the trial JD is in the day window
Check ==
    /\ pc = "check"
    /\ outcome' = FinalResult(kind, prev_jd, jd_min, jd_max)
    /\ pc' = "done"
    /\ UNCHANGED <<kind, jd, timezone_offset, target_altitude,
                   longitude_observer, latitude_observer, jd_min, jd_max,
                   prev_jd, iter, bodies, last, exit, table, arg, ret,
                   locals>>

SolverNext == Enter \/ Iterate \/ Check

SolverSpec == SolverInit /\ [][SolverNext]_vars

----------------------------------------------------------------------------
(* Properties of the solver *)

\* C1: every loop body tests cos H0 = (sin h0 - sin(lat) sin(decl)) /
\* (cos(lat) cos(decl)) before it corrects the trial JD: below -1 the call
\* returns NeverRises, above 1 it returns NeverSets, both with the trial JD
\* untouched, and from -1 to 1 (bounds included) the iteration goes on
\* without a result.
C1_CosTest ==
    [][pc = "loop" =>
        LET num == 1000 * sin(target_altitude)
                   - sin(latitude_observer) * sin(last'.decl)
            den == cos(latitude_observer) * cos(last'.decl)
        IN  /\ num < -den =>
                outcome' = NeverRises /\ pc' = "done" /\ prev_jd' = prev_jd
            /\ num > den =>
                outcome' = NeverSets /\ pc' = "done" /\ prev_jd' = prev_jd
            /\ (-den <= num /\ num <= den) =>
                outcome' = None /\ pc' \in {"loop", "check"}]_vars

\* C1 witness: cos H0 was exactly -1 (latitude 60, declination 30,
\* altitude 0) and the iteration went on
C1_Witness ==
    /\ pc = "loop"
    /\ bodies >= 1
    /\ outcome = None
    /\ target_altitude = Deg(0)
    /\ latitude_observer = Deg(60)
    /\ last.decl = Deg(30)

\* C2: for rise and set, after the loop the result is Time(t) exactly when
\* jd_min <= t <= jd_max for the last trial JD t, otherwise NeverRises for
\* rise and NeverSets for set, however the loop was left.
C2_WindowDecides ==
    (pc = "done" /\ exit # "none" /\ kind \in {"Rise", "Set"}) =>
        LET inside == /\ \/ jd_min.day < prev_jd.day
                         \/ jd_min.day = prev_jd.day /\ jd_min.sec <= prev_jd.sec
                      /\ \/ prev_jd.day < jd_max.day
                         \/ prev_jd.day = jd_max.day /\ prev_jd.sec <= jd_max.sec
        IN  /\ inside => outcome = [tag |-> "Time", jd |-> prev_jd]
            /\ (~inside /\ kind = "Rise") => outcome = [tag |-> "NeverRises"]
            /\ (~inside /\ kind = "Set") => outcome = [tag |-> "NeverSets"]

\* C2 witness: a set left the loop by the iteration limit and returned a
\* time, like a converged call
C2_Witness ==
    /\ pc = "done"
    /\ kind = "Set"
    /\ exit = "limit"
    /\ outcome.tag = "Time"

\* C3: the loop body is executed at most MAX_ITER = 10 times per call.
C3_AtMostMaxIterBodies == bodies <= MAX_ITER

\* C4: transit always returns Time(jd), never NeverRises or NeverSets.
C4_TransitAlwaysTime ==
    (pc = "done" /\ kind = "Transit") => outcome.tag = "Time"

\* C5: the solver never aborts: the arm marked unreachable!() is never
\* reached.
C5_NoAbort == outcome.tag # "Panic"

----------------------------------------------------------------------------
(* Table lookups: upper_bound, cumulative_leap_seconds, delta_t *)

MaxLen == 3
MaxVal == 3
MaxOffset == 1
MaxEntries == 3

IsSorted(d) == \A i \in 1..(Len(d) - 1) : d[i] <= d[i + 1]

\* the sorted slices of i32, the empty one included
SortedSlices ==
    {d \in UNION {[1..n -> 1..MaxVal] : n \in 0..MaxLen} : IsSorted(d)}

\* query instants half a day around every entry of LEAP_SECOND_DATA
LeapQuerySet ==
    {add_hours(LEAP_SECOND_DATA[i].jd, 12 * 3600 * k) :
        i \in 1..Len(LEAP_SECOND_DATA), k \in (-MaxOffset)..MaxOffset}

\* DELTA_T_DATA: tables of 2 to MaxEntries entries, strictly ascending by
\* jd, with entries 4 days apart or more from 1973-02-01 on (delta_t in ms)
GridJD(k) == JD(2441714 + 4 * k, SEC_PER_DAY \div 2)

DeltaTValue(k, v) == [jd |-> GridJD(k), delta_t |-> v]

DeltaTEntries == {DeltaTValue(k, v) : k \in 0..MaxEntries, v \in {42000, 43500}}

DeltaTTables ==
    {t \in UNION {[1..n -> DeltaTEntries] : n \in 2..MaxEntries} :
        \A i \in 1..(Len(t) - 1) : JDLess(t[i].jd, t[i + 1].jd)}

\* query instants on the entries and 2 days after them, and dates far from
\* the table in several epochs of the polynomial expressions
DeltaTQuerySet ==
    {add_hours(GridJD(k), 24 * 2 * h * 3600) : k \in 0..MaxEntries, h \in 0..1}
    \cup {jd_from_date(y, m, 1, 0) :
            y \in {-1000, -501, 499, 1650, 1900, 2100, 2200}, m \in {1, 7}}

LookupInit ==
    /\ \/ /\ pc = "call_upper_bound"
          /\ table \in SortedSlices
          /\ arg \in 0..(MaxVal + 1)
       \/ /\ pc = "call_cumulative_leap_seconds"
          /\ table = LEAP_SECOND_DATA
          /\ arg \in LeapQuerySet
       \/ /\ pc \in {"call_delta_t", "call_ut1_to_tt"}
          /\ table \in DeltaTTables
          /\ arg \in DeltaTQuerySet
    /\ ret = 0
    /\ locals = <<>>
    /\ kind = "Rise"
    /\ jd = JD(0, 0)
    /\ timezone_offset = 0
    /\ target_altitude = 0
    /\ longitude_observer = 0
    /\ latitude_observer = 0
    /\ jd_min = JD(0, 0)
    /\ jd_max = JD(0, 0)
    /\ prev_jd = JD(0, 0)
    /\ iter = 0
    /\ bodies = 0
    /\ last = NoLast
    /\ exit = "none"
    /\ outcome = None

UpperBoundCall ==
    /\ pc = "call_upper_bound"
    /\ ret' = upper_bound(table, arg, "i32")
    /\ pc' = "done_upper_bound"
    /\ UNCHANGED <<table, arg, locals>>
    /\ UNCHANGED solverVars

CumulativeLeapSecondsCall ==
    /\ pc = "call_cumulative_leap_seconds"
    /\ ret' = cumulative_leap_seconds(table, arg)
    /\ pc' = "done_cumulative_leap_seconds"
    /\ UNCHANGED <<table, arg, locals>>
    /\ UNCHANGED solverVars

DeltaTCall ==
    /\ pc = "call_delta_t"
    /\ ret' = delta_t(table, arg)
    /\ pc' = "done_delta_t"
    /\ UNCHANGED <<table, arg, locals>>
    /\ UNCHANGED solverVars

UT1ToTTCall ==
    /\ pc = "call_ut1_to_tt"
    /\ ret' = ut1_to_tt(arg)
    /\ pc' = "done_ut1_to_tt"
    /\ UNCHANGED <<table, arg, locals>>
    /\ UNCHANGED solverVars

LookupNext ==
    UpperBoundCall \/ CumulativeLeapSecondsCall \/ DeltaTCall \/ UT1ToTTCall

LookupSpec == LookupInit /\ [][LookupNext]_vars

----------------------------------------------------------------------------
(* Properties of the table lookups *)

\* C6: on a sorted slice upper_bound returns the smallest index whose
\* element is greater than the query, or the length of the slice: every
\* element before the index is <= the query (equal ones are skipped) and
\* the element at the index, if any, is greater.
C6_UpperBound ==
    pc = "done_upper_bound" =>
        /\ ret \in 0..Len(table)
        /\ \A i \in 1..ret : table[i] <= arg
        /\ ret < Len(table) => table[ret + 1] > arg

\* C6 witness: two elements equal to the query were skipped
C6_Witness ==
    /\ pc = "done_upper_bound"
    /\ Len(table) >= 3
    /\ table[1] = arg
    /\ table[2] = arg
    /\ table[3] > arg
    /\ ret = 2

\* C7: from the first entry on, the last entry and beyond included,
\* cumulative_leap_seconds uses the entry with the greatest jd <= input and
\* returns its leap_seconds + (mjd(jd) - base_mjd) * coefficient.
C7_GreatestEntryAtOrBelow ==
    (pc = "done_cumulative_leap_seconds" /\ ~JDLess(arg, table[1].jd)) =>
        \E i \in 1..Len(table) :
            /\ JDLeq(table[i].jd, arg)
            /\ i < Len(table) => JDLess(arg, table[i + 1].jd)
            /\ ret.tag = "Ok"
            /\ ret.value = table[i].leap_seconds
                           + DriftTerm(jd_to_mjd(arg), table[i].base_mjd,
                                       table[i].coefficient)

\* C8: before the first entry (JD 2437300.5) cumulative_leap_seconds
\* returns 0 without searching the table or using an entry.
C8_ZeroBeforeFirst ==
    (pc = "done_cumulative_leap_seconds"
     /\ JDLess(arg, [day |-> 2437300, sec |-> 43200])) =>
        /\ ret.tag = "Ok"
        /\ ret.value = 0
        /\ ret.searched = FALSE
        /\ ret.item = -1

\* C8 witness: a call half a day before the first entry
C8_Witness ==
    /\ pc = "done_cumulative_leap_seconds"
    /\ arg = [day |-> 2437300, sec |-> 0]
    /\ ret.value = 0

\* C9: inside a strictly ascending table delta_t takes prev = the entry
\* with the greatest jd <= input and curr = the next one, returns the
\* linear interpolation between them, exactly prev.delta_t on an entry's
\* jd, and a value between prev.delta_t and curr.delta_t.
C9_Interpolation ==
    (pc = "done_delta_t" /\ JDLeq(table[1].jd, arg)
     /\ JDLess(arg, table[Len(table)].jd)) =>
        /\ ret.branch = "table"
        /\ ret.curr = ret.prev + 1
        /\ LET prev == table[ret.prev + 1]
               curr == table[ret.curr + 1]
               lo == IF prev.delta_t < curr.delta_t
                     THEN prev.delta_t ELSE curr.delta_t
               hi == IF prev.delta_t < curr.delta_t
                     THEN curr.delta_t ELSE prev.delta_t
           IN  /\ JDLeq(prev.jd, arg)
               /\ JDLess(arg, curr.jd)
               /\ ret.value =
                    TruncDiv(((1000 * SecondsBetween(arg, prev.jd))
                                \div SecondsBetween(curr.jd, prev.jd))
                             * (curr.delta_t - prev.delta_t), 1000)
                    + prev.delta_t
               /\ arg = prev.jd => ret.value = prev.delta_t
               /\ lo <= ret.value /\ ret.value <= hi

\* C9 witness: a query half way between two entries with different delta_t
C9_Witness ==
    /\ pc = "done_delta_t"
    /\ ret.branch = "table"
    /\ table[ret.prev + 1].delta_t = 42000
    /\ table[ret.curr + 1].delta_t = 43500
    /\ JDLess(table[ret.prev + 1].jd, arg)
    /\ ret.value > 42000
    /\ ret.value < 43500

\* C10: outside the table delta_t works with u = (fractional_year -
\* reference) / 100 for the fractional year of the date, so that u changes
\* within a calendar year.
C10_FractionalU ==
    (pc = "done_delta_t" /\ ret.branch = "poly") =>
        LET date == jd_to_calendar_date(arg)
        IN  ret.u = jd_fractional_year(date.year, date.month, date.day,
                                       date.dsec)
                    - 1000 * ret.reference

\* C11: ut1_to_tt(jd) returns jd + delta_t(jd) / 86400: inside the table,
\* where delta_t is the interpolated value (ms here), the result is the
\* argument moved forward by delta_t seconds.
C11_AddsDeltaT ==
    (pc = "done_ut1_to_tt" /\ delta_t(table, arg).branch = "table") =>
        ret = JD(arg.day, arg.sec + delta_t(table, arg).value \div 1000)

----------------------------------------------------------------------------
(* Calls of the pure functions of date/ and util/degrees.rs *)

Span == 40

\* Julian Days around JD 0, the calendar switch (2299160.5), 1 January of
\* the year 0, 29 February 1900 and 2000, J2000 and the end of the i16
\* years, at the start, the middle and the end of the day
RoundTripBases == {Span, 1721058, 2299160, 2415079, 2451545, 2451604, 13689280}

RoundTripSet ==
    {JD(b + k, sec) : b \in RoundTripBases, k \in (-Span)..Span,
                      sec \in {0, 1, 43199, 43200, 43201, 86399}}

\* the solver is not running
SolverIdle ==
    /\ kind = "Rise"
    /\ jd = JD(0, 0)
    /\ timezone_offset = 0
    /\ target_altitude = 0
    /\ longitude_observer = 0
    /\ latitude_observer = 0
    /\ jd_min = JD(0, 0)
    /\ jd_max = JD(0, 0)
    /\ prev_jd = JD(0, 0)
    /\ iter = 0
    /\ bodies = 0
    /\ last = NoLast
    /\ exit = "none"
    /\ outcome = None

MaxYear == 2400

\* years around 0, the calendar switch and the centuries, and the ends of i16
YearSet == ((-MaxYear)..MaxYear) \cup {-32768, -32767, 32766, 32767}

\* dates around the calendar switch and far from it
DateSet ==
    {Date(y, m, d, sec) : y \in {-4712, 0, 1581, 1582, 1583, 1600, 1900, 2000},
                          m \in 1..12, d \in {1, 4, 5, 6, 14, 15, 28},
                          sec \in {0, 1, 43200}}

MaxTurns == 2

\* angles in arc minutes: within an arc minute of every multiple of 30
\* degrees, up to MaxTurns turns either way
AngleSet ==
    {Deg(30) * k + j : k \in (-12 * MaxTurns)..(12 * MaxTurns), j \in -1..1}

\* f64 angles in units of 1 / Fine arc minute: the angles of AngleSet and
\* the values next to 0 below the arc minute
AngleSetF64 ==
    {Fine * a : a \in AngleSet} \cup ((-2 * Fine)..(2 * Fine))

\* arguments of bound_julian_day: instants around the calendar switch, the
\* query of the solver and 2022-02-21, with time zone offsets over the
\* whole of i8
BoundSet ==
    [jd : {JD(b + k, sec) : b \in {2299160, 2451626, 2459631}, k \in -1..1,
                            sec \in {0, 43199, 43200, 86399}},
     tz : {-128, -127, -12, -1, 0, 1, 14, 127}]

FunctionInit ==
    /\ \/ /\ pc = "call_round_trip"
          /\ arg \in RoundTripSet
       \/ /\ pc = "call_bound_julian_day"
          /\ arg \in BoundSet
       \/ /\ pc = "call_map_to_0_to_360"
          /\ arg \in AngleSetF64
       \/ /\ pc = "call_map_neg180_to_180"
          /\ arg \in AngleSet
       \/ /\ pc = "call_is_leap"
          /\ arg \in YearSet
       \/ /\ pc = "call_is_julian_calendar"
          /\ arg \in DateSet
    /\ table = <<>>
    /\ ret = 0
    /\ locals = <<>>
    /\ SolverIdle

\* JD::from_date(jd.to_calendar_date())
RoundTripCall ==
    /\ pc = "call_round_trip"
    /\ LET date == to_calendar_date(arg)
       IN  ret' = [date |-> date, jd |-> from_date(date)]
    /\ pc' = "done_round_trip"
    /\ UNCHANGED <<table, arg, locals>>
    /\ UNCHANGED solverVars

IsLeapCall ==
    /\ pc = "call_is_leap"
    /\ ret' = is_leap(arg)
    /\ pc' = "done_is_leap"
    /\ UNCHANGED <<table, arg, locals>>
    /\ UNCHANGED solverVars

\* Date::is_julian_calendar and the term b that JD::from_date derives from it
IsJulianCalendarCall ==
    /\ pc = "call_is_julian_calendar"
    /\ ret' = [julian |-> is_julian_calendar(arg), b |-> from_date_b(arg)]
    /\ pc' = "done_is_julian_calendar"
    /\ UNCHANGED <<table, arg, locals>>
    /\ UNCHANGED solverVars

\* x.map_to_0_to_360() and x.map_to_0_to_360().map_to_0_to_360()
MapTo0To360Call ==
    /\ pc = "call_map_to_0_to_360"
    /\ LET once == map_to_0_to_360_f64(arg)
       IN  ret' = [once |-> once, twice |-> map_to_0_to_360_f64(once)]
    /\ pc' = "done_map_to_0_to_360"
    /\ UNCHANGED <<table, arg, locals>>
    /\ UNCHANGED solverVars

\* x.map_neg180_to_180() and x.map_neg180_to_180().map_neg180_to_180()
MapNeg180To180Call ==
    /\ pc = "call_map_neg180_to_180"
    /\ LET once == map_neg180_to_180(arg)
       IN  ret' = [once |-> once, twice |-> map_neg180_to_180(once)]
    /\ pc' = "done_map_neg180_to_180"
    /\ UNCHANGED <<table, arg, locals>>
    /\ UNCHANGED solverVars

\* bound_julian_day; the negation of i8::MIN panics or wraps, depending
\* on the build
BoundJulianDayCall ==
    /\ pc = "call_bound_julian_day"
    /\ \/ ret' = bound_julian_day(arg.jd, arg.tz)
       \/ arg.tz = -128 /\ ret' = Panic
    /\ pc' = "done_bound_julian_day"
    /\ UNCHANGED <<table, arg, locals>>
    /\ UNCHANGED solverVars

FunctionNext ==
    \/ RoundTripCall
    \/ BoundJulianDayCall
    \/ MapTo0To360Call
    \/ MapNeg180To180Call
    \/ IsLeapCall
    \/ IsJulianCalendarCall

FunctionSpec == FunctionInit /\ [][FunctionNext]_vars

----------------------------------------------------------------------------
(* Properties of the pure functions *)

\* C12: for jd >= 0 with any fraction of the day, on both sides of the
\* calendar switch, JD::from_date(JD::to_calendar_date(jd)) is jd again
\* (here exactly, at the resolution of one second).
C12_RoundTrip ==
    pc = "done_round_trip" => ret.jd = arg

\* C12 witness: the round trip of the first Gregorian instant, 1582-10-15
\* 0h, and of an instant with a fraction on the Julian side
C12_Witness ==
    /\ pc = "done_round_trip"
    /\ \/ arg = [day |-> 2299160, sec |-> 43200]
       \/ arg = [day |-> 2299159, sec |-> 43201]
    /\ ret.jd = arg

\* C13: is_leap(y) is true exactly when y is a year whose 1 January is
\* Julian (y <= 1582) and 4 divides y, negative years included, or y is a
\* Gregorian year that 4 divides and 100 does not, or that 400 divides.
C13_IsLeap ==
    pc = "done_is_leap" =>
        LET Divides(n) == arg % n = 0
            julian == arg <= 1582
        IN  ret = \/ julian /\ Divides(4)
                  \/ ~julian /\ Divides(4) /\ ~Divides(100)
                  \/ ~julian /\ Divides(400)

\* C13 witness: a negative Julian year that 4 divides is a leap year, and
\* so is 1500, which the Gregorian rule would exclude
C13_Witness ==
    /\ pc = "done_is_leap"
    /\ arg \in {-4, 1500}
    /\ ret = TRUE

\* C14 as stated: a date is Julian exactly when it is before or at the
\* cutover 1582-10-05 (read as the instant 0h of that day, the reading
\* most favourable to the statement), Gregorian after it, and b is 0 for
\* exactly the Julian dates.
C14_CutoverInclusive ==
    pc = "done_is_julian_calendar" =>
        LET before == \/ arg.year < 1582
                      \/ arg.year = 1582 /\ arg.month < 10
                      \/ arg.year = 1582 /\ arg.month = 10 /\ arg.day < 5
            at == arg.year = 1582 /\ arg.month = 10 /\ arg.day = 5
                  /\ arg.dsec = 0
        IN  /\ ret.julian = (before \/ at)
            /\ (ret.b = 0) = (before \/ at)

\* C14 amended: a date is Julian exactly when it is strictly before
\* 1582-10-05 0h (up to the end of 4 October), Gregorian from that instant
\* on, and from_date uses b = 0 for exactly the Julian dates and
\* b = 2 - a + trunc(a / 4), a = trunc(yy / 100), for all others.
C14_CutoverExclusive ==
    pc = "done_is_julian_calendar" =>
        LET before == \/ arg.year < 1582
                      \/ arg.year = 1582 /\ arg.month < 10
                      \/ arg.year = 1582 /\ arg.month = 10 /\ arg.day < 5
            yy == IF arg.month < 3 THEN arg.year - 1 ELSE arg.year
            a == yy \div 100
        IN  /\ ret.julian = before
            /\ before => ret.b = 0
            /\ ~before => ret.b = 2 - a + (a \div 4)

\* C14 witness: 1582-10-05 0h is Gregorian, with b = 2 - 15 + 3
C14_Witness ==
    /\ pc = "done_is_julian_calendar"
    /\ arg = [year |-> 1582, month |-> 10, day |-> 5, dsec |-> 0]
    /\ ret = [julian |-> FALSE, b |-> -10]

\* C15: map_to_0_to_360(x) lies in [0, 360), is congruent to x modulo 360
\* (to the resolution of an f64 near 360) and is left unchanged by a
\* second application.
C15_MapTo0To360 ==
    pc = "done_map_to_0_to_360" =>
        LET turn == Deg(360) * Fine
            off == (ret.once - arg) % turn
        IN  /\ 0 <= ret.once
            /\ ret.once < turn
            /\ off <= Fine \/ turn - off <= Fine
            /\ ret.twice = ret.once

\* C16: map_neg180_to_180(x) lies in [-180, 180), 180 excluded, and is
\* left unchanged by a second application.
C16_MapNeg180To180 ==
    pc = "done_map_neg180_to_180" =>
        /\ -Deg(180) <= ret.once
        /\ ret.once < Deg(180)
        /\ ret.twice = ret.once

----------------------------------------------------------------------------
(* rise followed by set for the same query, under the same sky *)

\* right ascensions of the body at the query instant, one per quadrant
SkyRASet == {Deg(0), Deg(90), Deg(180), Deg(270)}

\* the ephemeris of lines 168-173 as a function of the trial JD: the right
\* ascension grows by the mean motion of the moon, 13.2 degrees (792 arc
\* minutes) a day, from ra0 at the query instant; the declination stays
moon_ra(ra0, j, query) ==
    map_to_0_to_360(ra0 + TruncDiv(SecondsBetween(j, query) * 792, SEC_PER_DAY))

PairInit ==
    /\ pc = "call"
    /\ kind = "Rise"
    /\ jd \in QuerySet
    /\ timezone_offset \in TimezoneSet
    /\ target_altitude \in AltitudeSet
    /\ longitude_observer \in LongitudeSet
    /\ latitude_observer \in LatitudeSet
    /\ table \in [ra0 : SkyRASet, decl : DeclSet]
    /\ jd_min = JD(0, 0)
    /\ jd_max = JD(0, 0)
    /\ prev_jd = JD(0, 0)
    /\ iter = 0
    /\ bodies = 0
    /\ last = NoLast
    /\ exit = "none"
    /\ outcome = None
    /\ arg = 0
    /\ ret = None
    /\ locals = <<>>

\* the loop body with the right ascension and declination of the trial JD
PairIterate == LoopBody(moon_ra(table.ra0, prev_jd, jd), table.decl)

\* rise has returned: its result is kept and set is called with the same
\* arguments
SetAfterRise ==
    /\ pc = "done"
    /\ kind = "Rise"
    /\ ret' = outcome
    /\ kind' = "Set"
    /\ pc' = "call"
    /\ outcome' = None
    /\ jd_min' = JD(0, 0)
    /\ jd_max' = JD(0, 0)
    /\ prev_jd' = JD(0, 0)
    /\ iter' = 0
    /\ bodies' = 0
    /\ last' = NoLast
    /\ exit' = "none"
    /\ UNCHANGED <<jd, timezone_offset, target_altitude, longitude_observer,
                   latitude_observer, table, arg, locals>>

PairNext == Enter \/ PairIterate \/ Check \/ SetAfterRise

PairSpec == PairInit /\ [][PairNext]_vars

\* C17 as stated: when rise returns Time(r) and set returns Time(s) for
\* the same query, s > r.
C17_SetAfterRise ==
    (pc = "done" /\ kind = "Set" /\ ret.tag = "Time" /\ outcome.tag = "Time")
        => JDLess(ret.jd, outcome.jd)

\* C17 amended: when rise returns Time(r) and set returns Time(s) for the
\* same query, r and s lie in the same day window [jd_min, jd_max], so
\* they are at most 24 hours apart, in either order.
C17_SameWindow ==
    (pc = "done" /\ kind = "Set" /\ ret.tag = "Time" /\ outcome.tag = "Time")
        => /\ JDLeq(jd_min, ret.jd) /\ JDLeq(ret.jd, jd_max)
           /\ JDLeq(jd_min, outcome.jd) /\ JDLeq(outcome.jd, jd_max)
           /\ Abs(SecondsBetween(outcome.jd, ret.jd)) <= SEC_PER_DAY

\* C17 witness: both calls returned a time and the set is the earlier one
C17_Witness ==
    /\ pc = "done"
    /\ kind = "Set"
    /\ ret.tag = "Time"
    /\ outcome.tag = "Time"
    /\ JDLess(outcome.jd, ret.jd)

\* C18: bound_julian_day(jd, tz) returns jd_min = (0h UTC of the calendar
\* day that contains jd) - tz hours, jd_midday = jd_min + 12 hours and
\* jd_max = jd_min + 24 hours, for every jd and every tz.
C18_DayWindow ==
    pc = "done_bound_julian_day" =>
        LET half == SEC_PER_DAY \div 2
            midnight == IF arg.jd.sec >= half
                        THEN [day |-> arg.jd.day, sec |-> half]
                        ELSE [day |-> arg.jd.day - 1, sec |-> half]
            lo == JD(midnight.day, midnight.sec - arg.tz * 3600)
        IN  /\ ret # Panic
            /\ ret.min = lo
            /\ ret.midday = JD(lo.day, lo.sec + half)
            /\ ret.max = JD(lo.day + 1, lo.sec)

----------------------------------------------------------------------------
(* The lookups on tables that are out of order or have duplicate keys *)

\* tables of 2 to MaxEntries entries with any keys of the grid in any
\* order, duplicates included
MalformedLeapTables ==
    UNION {[1..n -> {[jd |-> GridJD(k), leap_seconds |-> 10000000 * (10 + k),
                      base_mjd |-> 41317, coefficient |-> 0] :
                     k \in 0..MaxEntries}] : n \in 2..MaxEntries}

MalformedDeltaTTables ==
    UNION {[1..n -> {DeltaTValue(k, 42000 + 500 * k) : k \in 0..MaxEntries}] :
           n \in 2..MaxEntries}

\* query instants on the keys of the grid and 2 days after them, from
\* before the first key of the grid to after the last one
MalformedQuerySet ==
    {add_hours(GridJD(k), 24 * 2 * h * 3600) :
        k \in (-1)..(MaxEntries + 1), h \in 0..1}

MalformedInit ==
    /\ \/ /\ pc = "call_cumulative_leap_seconds"
          /\ table \in MalformedLeapTables
       \/ /\ pc = "call_delta_t"
          /\ table \in MalformedDeltaTTables
    /\ arg \in MalformedQuerySet
    /\ ret = 0
    /\ locals = <<>>
    /\ SolverIdle

MalformedNext == CumulativeLeapSecondsCall \/ DeltaTCall

MalformedSpec == MalformedInit /\ [][MalformedNext]_vars

\* C19: on a table of at least 2 entries with any contents the lookups do
\* not panic: when the search runs, upper_bound returns idx >= 1, and for
\* delta_t also idx <= len - 1, so data[idx - 1] and data[idx] exist.
C19_NoPanicOnMalformed ==
    /\ pc = "done_cumulative_leap_seconds" =>
          /\ ret.tag = "Ok"
          /\ ret.searched =>
                /\ upper_bound(table, [jd |-> arg], "LeapSecondCoefficient") >= 1
                /\ ret.item \in 0..(Len(table) - 1)
    /\ pc = "done_delta_t" =>
          /\ ret.branch # "panic"
          /\ ret.branch = "table" =>
                /\ upper_bound(table, [jd |-> arg], "DeltaTValue") >= 1
                /\ upper_bound(table, [jd |-> arg], "DeltaTValue")
                     <= Len(table) - 1
                /\ ret.prev \in 0..(Len(table) - 1)
                /\ ret.curr \in 0..(Len(table) - 1)

\* C19 witness: on a table out of order delta_t took the table branch
\* without a panic and interpolated from an entry that is not the last one
\* at or before the query: a wrong number
C19_Witness ==
    /\ pc = "done_delta_t"
    /\ \E i \in 1..(Len(table) - 1) : JDLess(table[i + 1].jd, table[i].jd)
    /\ ret.branch = "table"
    /\ \E i \in 1..Len(table) :
          /\ ~JDLess(arg, table[i].jd)
          /\ JDLess(table[ret.prev + 1].jd, table[i].jd)

----------------------------------------------------------------------------
(* Concurrent calls: every thread runs one call, step by step; a step is
   one read of a static table or one execution of a loop body *)

NThreads == 2

Threads == 1..NThreads

\* the local variables of a call: idx of cumulative_leap_seconds and
\* delta_t, min_idx and max_idx of upper_bound, jd_min, jd_max, prev_jd and
\* iter of calculate_rise_set_transit
NoLocals ==
    [min_idx |-> 0, max_idx |-> 0, idx |-> 0, searched |-> FALSE,
     jd_min |-> JD(0, 0), jd_max |-> JD(0, 0), prev_jd |-> JD(0, 0),
     iter |-> 0]

\* all frames in one place, as if the local variables were statics
FrameOfStatic(t) == 1

\* the local variables of a call live in the frame of the calling thread
FrameOf(t) == t

\* the statics: the tables, and the position of the moon that the
\* periodic terms give for the query instant
StaticTables ==
    [leap : {LEAP_SECOND_DATA},
     delta_t : {<<DeltaTValue(0, 42000), DeltaTValue(1, 43500),
                  DeltaTValue(3, 42000)>>},
     sky : [ra0 : {Deg(0), Deg(180)}, decl : {Deg(30)}]]

Call(op, j) ==
    [op |-> op, jd |-> j, timezone_offset |-> 1, target_altitude |-> Deg(0),
     longitude_observer |-> Deg(-15), latitude_observer |-> Deg(60)]

SolverOps == {"rise", "set", "transit"}

\* the calls a thread may make: lookups before, inside and after the
\* tables, and the three solver calls for 2000-03-23
ConcurrentCalls ==
    {Call("cumulative_leap_seconds", j) :
        j \in {JD(2437000, 0), JD(2441500, 0), JD(2457754, 43200)}}
    \cup {Call("delta_t", j) :
            j \in {add_hours(GridJD(1), 24 * 2 * 3600), JD(2451545, 0)}}
    \cup {Call(op, JD(2451626, SEC_PER_DAY \div 2)) : op \in SolverOps}

KindOf(op) ==
    CASE op = "rise" -> "Rise"
      [] op = "set" -> "Set"
      [] op = "transit" -> "Transit"

\* one step of upper_bound on data with the local variables f: a loop
\* body, or the lines after the loop, which return idx to the caller;
\* data[i] out of bounds is a panic
UpperBoundStep(f, data, to_find, ord) ==
    LET n == Len(data)
    IN  IF f.min_idx < f.max_idx
        THEN LET mid_idx == f.min_idx + (f.max_idx - f.min_idx) \div 2
             IN  IF mid_idx >= n
                 THEN [pc |-> "done", frame |-> f, result |-> Panic]
                 ELSE IF ge(ord, to_find, data[mid_idx + 1])
                 THEN [pc |-> "loop", result |-> None,
                       frame |-> [f EXCEPT !.min_idx = mid_idx + 1]]
                 ELSE [pc |-> "loop", result |-> None,
                       frame |-> [f EXCEPT !.max_idx = mid_idx]]
        ELSE IF f.min_idx < n /\ le(ord, data[f.min_idx + 1], to_find)
             THEN [pc |-> "finish", result |-> None,
                   frame |-> [f EXCEPT !.idx = f.min_idx + 1]]
             ELSE [pc |-> "finish", result |-> None,
                   frame |-> [f EXCEPT !.idx = f.min_idx]]

\* one step of cumulative_leap_seconds with the local variables f, at
\* position p: the next position, the local variables and the result
CumulativeLeapSecondsStepOf(call, f, p, data) ==
    LET n == Len(data)
    IN  CASE p = "call" ->
               IF AtOrAfterFirst(data, call.jd)
               THEN IF JDLess(call.jd, data[n].jd)
                    THEN [pc |-> "loop", result |-> None,
                          frame |-> [f EXCEPT !.min_idx = 0, !.max_idx = n,
                                              !.idx = n - 1,
                                              !.searched = TRUE]]
                    ELSE [pc |-> "finish", result |-> None,
                          frame |-> [f EXCEPT !.idx = n - 1,
                                              !.searched = FALSE]]
               ELSE [pc |-> "done", frame |-> f,
                     result |-> [tag |-> "Ok", value |-> 0,
                                 searched |-> FALSE, item |-> -1]]
          [] p = "loop" ->
               UpperBoundStep(f, data, [jd |-> call.jd],
                              "LeapSecondCoefficient")
          [] p = "finish" ->
               IF f.idx < 1 \/ f.idx > n
               THEN [pc |-> "done", frame |-> f, result |-> Panic]
               ELSE [pc |-> "done", frame |-> f,
                     result |->
                       [tag |-> "Ok",
                        value |-> data[f.idx].leap_seconds
                                  + DriftTerm(jd_to_mjd(call.jd),
                                              data[f.idx].base_mjd,
                                              data[f.idx].coefficient),
                        searched |-> f.searched,
                        item |-> f.idx - 1]]

\* one step of delta_t with the local variables f, at position p; the
\* polynomial branch reads no table and is one step
DeltaTStepOf(call, f, p, data) ==
    LET n == Len(data)
    IN  CASE p = "call" ->
               IF ~JDLess(call.jd, data[1].jd) /\ JDLess(call.jd, data[n].jd)
               THEN [pc |-> "loop", result |-> None,
                     frame |-> [f EXCEPT !.min_idx = 0, !.max_idx = n]]
               ELSE [pc |-> "done", frame |-> f,
                     result |-> delta_t(data, call.jd)]
          [] p = "loop" ->
               UpperBoundStep(f, data, [jd |-> call.jd], "DeltaTValue")
          [] p = "finish" ->
               IF f.idx < 1 \/ f.idx >= n
               THEN [pc |-> "done", frame |-> f, result |-> [branch |-> "panic"]]
               ELSE [pc |-> "done", frame |-> f,
                     result |->
                       [branch |-> "table", prev |-> f.idx - 1,
                        curr |-> f.idx,
                        value |-> Interpolate(call.jd, data[f.idx],
                                              data[f.idx + 1])]]

\* one step of calculate_rise_set_transit with the local variables f, at
\* position p: lines 151-164, one loop body (lines 166-212), or lines
\* 214-225
SolverStep(call, f, p, tables) ==
    CASE p = "call" ->
           LET w == bound_julian_day(call.jd, call.timezone_offset)
           IN  [pc |-> "loop", result |-> None,
                frame |-> [f EXCEPT !.jd_min = w.min, !.prev_jd = w.midday,
                                    !.jd_max = w.max, !.iter = 0]]
      [] p = "loop" ->
           LET ra == moon_ra(tables.sky.ra0, f.prev_jd, call.jd)
               c  == cos_hour_angle(call.target_altitude,
                                    call.latitude_observer, tables.sky.decl)
               h  == acos(c.num, c.den)
               h2 == hour_angle2(f.prev_jd, call.longitude_observer, ra)
               d  == delta_hour_angle(KindOf(call.op), h2, h)
               correction == MulSiderialToSolar(to_hours(d))
           IN  IF CosBelowMinusOne(c)
               THEN [pc |-> "done", frame |-> f, result |-> NeverRises]
               ELSE IF CosAboveOne(c)
               THEN [pc |-> "done", frame |-> f, result |-> NeverSets]
               ELSE IF LoopExit(correction, f.iter)
               THEN [pc |-> "check", result |-> None,
                     frame |-> [f EXCEPT
                                  !.prev_jd = add_hours(f.prev_jd, -correction)]]
               ELSE [pc |-> "loop", result |-> None,
                     frame |-> [f EXCEPT
                                  !.prev_jd = add_hours(f.prev_jd, -correction),
                                  !.iter = f.iter + 1]]
      [] p = "check" ->
           [pc |-> "done", frame |-> f,
            result |-> FinalResult(KindOf(call.op), f.prev_jd, f.jd_min,
                                   f.jd_max)]

Step(call, f, p, tables) ==
    CASE call.op = "cumulative_leap_seconds" ->
           CumulativeLeapSecondsStepOf(call, f, p, tables.leap)
      [] call.op = "delta_t" -> DeltaTStepOf(call, f, p, tables.delta_t)
      [] call.op \in SolverOps -> SolverStep(call, f, p, tables)

RECURSIVE RunFrom(_, _, _, _)
RunFrom(call, f, p, tables) ==
    LET s == Step(call, f, p, tables)
    IN  IF s.pc = "done" THEN s.result
        ELSE RunFrom(call, s.frame, s.pc, tables)

\* the call run alone from its first line to its return
RunAlone(call, tables) == RunFrom(call, NoLocals, "call", tables)

ConcurrentInit ==
    /\ pc = [t \in Threads |-> "call"]
    /\ arg \in [Threads -> ConcurrentCalls]
    /\ ret = [t \in Threads |-> None]
    /\ locals = [t \in Threads |-> NoLocals]
    /\ table \in StaticTables
    /\ SolverIdle

\* thread t takes the step s of its call: the local variables go to the
\* frame of the thread, the result to the caller
ThreadStep(t, s) ==
    /\ pc' = [pc EXCEPT ![t] = s.pc]
    /\ locals' = [locals EXCEPT ![FrameOf(t)] = s.frame]
    /\ ret' = [ret EXCEPT ![t] = s.result]
    /\ UNCHANGED <<table, arg>>
    /\ UNCHANGED solverVars

CumulativeLeapSecondsStep == \E t \in Threads :
    /\ arg[t].op = "cumulative_leap_seconds"
    /\ pc[t] # "done"
    /\ \E s \in {CumulativeLeapSecondsStepOf(arg[t], locals[FrameOf(t)],
                                             pc[t], table.leap)} :
          ThreadStep(t, s)

DeltaTStep == \E t \in Threads :
    /\ arg[t].op = "delta_t"
    /\ pc[t] # "done"
    /\ \E s \in {DeltaTStepOf(arg[t], locals[FrameOf(t)], pc[t],
                              table.delta_t)} :
          ThreadStep(t, s)

RiseSetTransitStep == \E t \in Threads :
    /\ arg[t].op \in SolverOps
    /\ pc[t] # "done"
    /\ \E s \in {SolverStep(arg[t], locals[FrameOf(t)], pc[t], table)} :
          ThreadStep(t, s)

ConcurrentNext ==
    CumulativeLeapSecondsStep \/ DeltaTStep \/ RiseSetTransitStep

ConcurrentSpec == ConcurrentInit /\ [][ConcurrentNext]_vars

\* C20: no step of any call changes the static tables, and under every
\* interleaving of the threads a call that has returned has returned the
\* result of the same call run alone: for cumulative_leap_seconds and
\* delta_t the value of the function on the tables, for rise, set and
\* transit the result of the uninterrupted run.
C20_ConcurrentAsAlone ==
    [][/\ table' = table
       /\ \A t \in Threads :
            pc'[t] = "done" =>
              /\ ret'[t] = RunAlone(arg'[t], table')
              /\ arg'[t].op = "cumulative_leap_seconds" =>
                   ret'[t] = cumulative_leap_seconds(table'.leap, arg'[t].jd)
              /\ arg'[t].op = "delta_t" =>
                   ret'[t] = delta_t(table'.delta_t, arg'[t].jd)]_vars

\* C20 witness: rise returned a time to thread 1 while the search of
\* delta_t in thread 2 was under way
C20_Witness ==
    /\ pc[1] = "done"
    /\ arg[1].op = "rise"
    /\ ret[1].tag = "Time"
    /\ pc[2] = "loop"
    /\ arg[2].op = "delta_t"
    /\ locals[2].min_idx > 0

----------------------------------------------------------------------------
(* moon/phase.rs: phase_description, as a function of the phase angle that
   phase_angle_360 gives for the Julian Day; angles in arc minutes *)

\* SECTION = 360.0 / (2.0 * 8.0) = 22.5 degrees
SECTION == Deg(360) \div (2 * 8)

\* a..b of Rust: a <= x < b
RangeContains(a, b, x) == a <= x /\ x < b

\* the first test with the bound SECTION included
phase_description_to_section(phase_angle) ==
    IF phase_angle <= SECTION THEN "New Moon"
    ELSE IF RangeContains(SECTION, Deg(45) + SECTION, phase_angle)
    THEN "Waxing Crescent"
    ELSE IF RangeContains(Deg(45) + SECTION, Deg(90) + SECTION, phase_angle)
    THEN "First Quarter"
    ELSE IF RangeContains(Deg(90) + SECTION, Deg(180) - SECTION, phase_angle)
    THEN "Waxing Gibbous"
    ELSE IF RangeContains(Deg(180) - SECTION, Deg(180) + SECTION, phase_angle)
    THEN "Full Moon"
    ELSE IF RangeContains(Deg(180) + SECTION, Deg(270) - SECTION, phase_angle)
    THEN "Waning Gibbous"
    ELSE IF RangeContains(Deg(270) - SECTION, Deg(270) + SECTION, phase_angle)
    THEN "Last Quarter"
    ELSE "Waning Crescent"

phase_description(phase_angle) ==
    IF phase_angle < SECTION THEN "New Moon"
    ELSE IF RangeContains(SECTION, Deg(45) + SECTION, phase_angle)
    THEN "Waxing Crescent"
    ELSE IF RangeContains(Deg(45) + SECTION, Deg(90) + SECTION, phase_angle)
    THEN "First Quarter"
    ELSE IF RangeContains(Deg(90) + SECTION, Deg(180) - SECTION, phase_angle)
    THEN "Waxing Gibbous"
    ELSE IF RangeContains(Deg(180) - SECTION, Deg(180) + SECTION, phase_angle)
    THEN "Full Moon"
    ELSE IF RangeContains(Deg(180) + SECTION, Deg(270) - SECTION, phase_angle)
    THEN "Waning Gibbous"
    ELSE IF RangeContains(Deg(270) - SECTION, Deg(270) + SECTION, phase_angle)
    THEN "Last Quarter"
    ELSE "Waning Crescent"

----------------------------------------------------------------------------
(* util/degrees.rs: to_dms and from_dms, on angles in arc seconds *)

ARCSEC_PER_DEG == 60 * 60

\* Degrees::from_dms(d, m, s): sign * (sign * d + (m + s / 60) / 60), the
\* sign taken from d
from_dms(d, m, s) ==
    LET sign == IF d < 0 THEN -1 ELSE 1
        value == sign * d * ARCSEC_PER_DEG + m * 60 + s
    IN  sign * value

\* Degrees::to_dms: (sign * deg as i16, minutes as u8, seconds) with deg,
\* minutes and seconds taken from the absolute value
to_dms(x) ==
    LET sign == IF x < 0 THEN -1 ELSE 1
        degress == Abs(x)
        deg == degress \div ARCSEC_PER_DEG
        minutes == (degress - deg * ARCSEC_PER_DEG) \div 60
        seconds == degress - deg * ARCSEC_PER_DEG - minutes * 60
    IN  [d |-> sign * deg, m |-> minutes, s |-> seconds]

----------------------------------------------------------------------------
(* Calls of the functions that prepare values for display *)

\* phase angles in [0, 360): within an arc minute of every multiple of 7.5
\* degrees
PhaseAngleSet ==
    {a \in {(Deg(15) \div 2) * k + j : k \in 0..48, j \in -1..1} :
        0 <= a /\ a < Deg(360)}

\* whole-arcsecond angles in (-360, 360) degrees, of either sign, with a
\* degree part of zero and with larger ones
DmsSet ==
    {sign * (d * ARCSEC_PER_DEG + m * 60 + sec) :
        sign \in {-1, 1}, d \in {0, 1, 19, 359}, m \in {0, 1, 38, 59},
        sec \in {0, 1, 51, 59}}

DisplayInit ==
    /\ \/ /\ pc = "call_phase_description"
          /\ arg \in PhaseAngleSet
       \/ /\ pc = "call_to_dms"
          /\ arg \in DmsSet
    /\ table = <<>>
    /\ ret = 0
    /\ locals = <<>>
    /\ SolverIdle

PhaseDescriptionCall ==
    /\ pc = "call_phase_description"
    /\ ret' = phase_description(arg)
    /\ pc' = "done_phase_description"
    /\ UNCHANGED <<table, arg, locals>>
    /\ UNCHANGED solverVars

\* x.to_dms() and Degrees::from_dms of its result
ToDmsCall ==
    /\ pc = "call_to_dms"
    /\ LET dms == to_dms(arg)
       IN  ret' = [dms |-> dms, back |-> from_dms(dms.d, dms.m, dms.s)]
    /\ pc' = "done_to_dms"
    /\ UNCHANGED <<table, arg, locals>>
    /\ UNCHANGED solverVars

DisplayNext ==
    \/ PhaseDescriptionCall
    \/ ToDmsCall

DisplaySpec == DisplayInit /\ [][DisplayNext]_vars

----------------------------------------------------------------------------
(* Properties of the display functions *)

\* C21: for a phase angle a in [0, 360) phase_description returns the
\* k-th of New Moon, Waxing Crescent, First Quarter, Waxing Gibbous, Full
\* Moon, Waning Gibbous, Last Quarter, Waning Crescent, where k - 1 is the
\* number of the thresholds 22.5, 67.5, 112.5, 157.5, 202.5, 247.5, 292.5
\* degrees that are <= a: the ranges are contiguous, disjoint, in
\* increasing order, with the lower bound included.
C21_PhaseRanges ==
    pc = "done_phase_description" =>
        LET names == <<"New Moon", "Waxing Crescent", "First Quarter",
                       "Waxing Gibbous", "Full Moon", "Waning Gibbous",
                       "Last Quarter", "Waning Crescent">>
            thresholds == {1350, 4050, 6750, 9450, 12150, 14850, 17550}
        IN  ret = names[1 + Cardinality({t \in thresholds : t <= arg})]

\* C21 witness: the angle is exactly 22.5 degrees and the description is
\* that of the range that starts there
C21_Witness ==
    /\ pc = "done_phase_description"
    /\ arg = 1350
    /\ ret = "Waxing Crescent"

\* C30: the New Moon sector is symmetric around 0: phase_description
\* returns New Moon for the angles of [337.5, 360) as for those of
\* [0, 22.5), and Waning Crescent only on [292.5, 337.5).
C30_NewMoonSymmetric ==
    pc = "done_phase_description" =>
        /\ (ret = "New Moon") = (arg < 1350 \/ arg >= 20250)
        /\ (ret = "Waning Crescent") = (17550 <= arg /\ arg < 20250)

\* C29: for every whole-arcsecond angle x in (-360, 360) degrees,
\* from_dms(to_dms(x)) = x, the angles -1 < x < 0 with a degree part of
\* zero included.
C29_DmsRoundTrip ==
    pc = "done_to_dms" => ret.back = arg

----------------------------------------------------------------------------
(* The correction step of the solver *)

\* C24: in every loop body that passes the test of cos H0, with H the
\* local hour angle at the trial JD mapped to [-180, 180] and H0 =
\* acos(cos H0), the difference is map_neg180_to_180(H + H0) for rise,
\* map_neg180_to_180(H - H0) for set and H for transit, and the trial JD
\* decreases by difference / 15 * 23.9344696 / 24 hours (4 s of time per
\* arc minute, times 29918087 / 30000000), whether or not the loop is left
\* after it; the time returned after the loop is that trial JD.
C24_CorrectionStep ==
    [][/\ pc = "loop" /\ pc' \in {"loop", "check"} =>
            LET H  == map_neg180_to_180(
                          map_to_0_to_360(mean_siderial_time(prev_jd)
                                          - longitude_observer) - last'.ra)
                H0 == acos(1000 * sin(target_altitude)
                           - sin(latitude_observer) * sin(last'.decl),
                           cos(latitude_observer) * cos(last'.decl))
                difference == CASE kind = "Rise" -> map_neg180_to_180(H + H0)
                                [] kind = "Set" -> map_neg180_to_180(H - H0)
                                [] kind = "Transit" -> H
                seconds == 4 * Abs(difference)
                solar == (seconds * 2991 + (seconds * 8087) \div 10000)
                         \div 3000
                correction == IF difference < 0 THEN -solar ELSE solar
            IN  /\ -Deg(180) <= H /\ H <= Deg(180)
                /\ SecondsBetween(prev_jd, prev_jd') = correction
       /\ (pc = "check" /\ outcome'.tag = "Time") => outcome'.jd = prev_jd
      ]_vars

\* C24 witness: a set left the loop on its second body, whose correction
\* is part of the time returned
C24_Witness ==
    /\ pc = "done"
    /\ kind = "Set"
    /\ bodies = 2
    /\ exit = "converged"
    /\ outcome = Time(prev_jd)

----------------------------------------------------------------------------
(* The year of the polynomial expressions *)

\* C25: outside the table the integer year y that selects the polynomial
\* expression is the calendar year of to_calendar_date(jd), for negative
\* years as for the others.
C25_YearIsCalendarYear ==
    (pc = "done_delta_t" /\ ret.branch = "poly") =>
        ret.y = jd_to_calendar_date(arg).year

----------------------------------------------------------------------------
(* map_neg180_to_180 and the angle it is given *)

\* C26: map_neg180_to_180(x) is congruent to x modulo 360 degrees, for the
\* sums and differences of the solver in [-360, 360] and beyond.
C26_SameAngle ==
    pc = "done_map_neg180_to_180" => Fmod(ret.once - arg, Deg(360)) = 0

----------------------------------------------------------------------------
(* Calendar dates: from_date followed by to_calendar_date, and the length
   of February and of the year that from_date implies *)

\* the years with JD >= 0 on the whole of i16
LeapYearSet == (-4712)..32767

\* the length of the month m of the year y in the calendar of the date:
\* Julian up to 4 October 1582, Gregorian from 15 October 1582
DaysInMonth(y, m) ==
    LET leap == IF y <= 1582 THEN y % 4 = 0
                ELSE (y % 4 = 0 /\ y % 100 # 0) \/ y % 400 = 0
    IN  CASE m = 2 -> IF leap THEN 29 ELSE 28
          [] m \in {4, 6, 9, 11} -> 30
          [] OTHER -> 31

\* the valid calendar dates with JD >= 0 of some years of both calendars,
\* at the start, the middle and the end of the day; 5 to 14 October 1582
\* do not exist
ValidDateSet ==
    {date \in
        {Date(y, m, d, sec) :
            y \in {-4712, -1, 0, 4, 1500, 1582, 1583, 1600, 1700, 1900, 2000,
                   2024, 32767},
            m \in 1..12, d \in 1..31, sec \in {0, 43200, 86399}} :
        /\ date.day <= DaysInMonth(date.year, date.month)
        /\ ~(date.year = 1582 /\ date.month = 10
             /\ date.day >= 5 /\ date.day <= 14)
        /\ ~(date.year = -4712 /\ date.month = 1 /\ date.day = 1
             /\ date.dsec < SEC_PER_DAY \div 2)}

CalendarInit ==
    /\ \/ /\ pc = "call_from_date"
          /\ arg \in ValidDateSet
       \/ /\ pc = "call_days_in_year"
          /\ arg \in LeapYearSet
    /\ table = <<>>
    /\ ret = 0
    /\ locals = <<>>
    /\ SolverIdle

\* JD::from_date(date).to_calendar_date()
FromDateCall ==
    /\ pc = "call_from_date"
    /\ LET j == from_date(arg)
       IN  ret' = [jd |-> j, date |-> to_calendar_date(j)]
    /\ pc' = "done_from_date"
    /\ UNCHANGED <<table, arg, locals>>
    /\ UNCHANGED solverVars

\* is_leap(y), and the days that from_date puts between 28 February and
\* 1 March of the year y and between 1 January of y and of y + 1 (0 where
\* y + 1 is no i16)
DaysInYearCall ==
    /\ pc = "call_days_in_year"
    /\ ret' = [leap |-> is_leap(arg),
               february |-> SecondsBetween(from_date(Date(arg, 3, 1, 0)),
                                           from_date(Date(arg, 2, 28, 0)))
                            \div SEC_PER_DAY,
               year |-> IF arg = 32767 THEN 0
                        ELSE SecondsBetween(from_date(Date(arg + 1, 1, 1, 0)),
                                            from_date(Date(arg, 1, 1, 0)))
                             \div SEC_PER_DAY]
    /\ pc' = "done_days_in_year"
    /\ UNCHANGED <<table, arg, locals>>
    /\ UNCHANGED solverVars

CalendarNext ==
    \/ FromDateCall
    \/ DaysInYearCall

CalendarSpec == CalendarInit /\ [][CalendarNext]_vars

C27_LeapAgreesWithFromDate ==
    pc = "done_days_in_year" =>
        /\ ret.february = IF ret.leap THEN 2 ELSE 1
        /\ (arg # 1582 /\ arg # 32767) =>
              ret.year = IF ret.leap THEN 366 ELSE 365
        /\ arg = 1582 => ret.year = 355

\* C27 witness: 1500 is a leap year of the Julian calendar only, and
\* from_date has its 29 February
C27_Witness ==
    /\ pc = "done_days_in_year"
    /\ arg = 1500
    /\ ret.leap
    /\ ret.february = 2
    /\ ret.year = 366

----------------------------------------------------------------------------
(* The day window and the query instant *)

\* C28: the window of bound_julian_day contains the query instant:
\* jd_min <= jd <= jd_max for every jd and every time zone offset.
C28_WindowContainsQuery ==
    (pc = "done_bound_julian_day" /\ ret # Panic) =>
        JDLeq(ret.min, arg.jd) /\ JDLeq(arg.jd, ret.max)

----------------------------------------------------------------------------
(* The order of LEAP_SECOND_DATA *)

\* C22: the table that cumulative_leap_seconds searches has at least two
\* entries and is strictly ascending by jd, and the order that upper_bound
\* uses on it looks at jd only: the probe of the call, with leap_seconds,
\* base_mjd and coefficient zero, compares with every entry as its jd
\* compares with the jd of the entry.
C22_LeapTableOrder ==
    pc \in {"call_cumulative_leap_seconds", "done_cumulative_leap_seconds"} =>
        LET probe == [jd |-> arg, leap_seconds |-> 0, base_mjd |-> 0,
                      coefficient |-> 0]
        IN  /\ Len(table) >= 2
            /\ \A i \in 1..(Len(table) - 1) :
                  \/ table[i].jd.day < table[i + 1].jd.day
                  \/ /\ table[i].jd.day = table[i + 1].jd.day
                     /\ table[i].jd.sec < table[i + 1].jd.sec
            /\ \A i \in 1..Len(table) :
                  /\ ge("LeapSecondCoefficient", probe, table[i])
                       = ~JDLess(arg, table[i].jd)
                  /\ le("LeapSecondCoefficient", table[i], probe)
                       = ~JDLess(arg, table[i].jd)
                  /\ arg = table[i].jd =>
                       /\ partial_cmp("LeapSecondCoefficient", probe, table[i])
                            = "Equal"
                       /\ \A k \in 1..Len(table) :
                            partial_cmp("LeapSecondCoefficient", probe,
                                        table[k])
                            = partial_cmp("LeapSecondCoefficient", table[i],
                                          table[k])

\* C22 witness: the query is the jd of an entry inside the table, and the
\* search found that entry with the zeroed probe
C22_Witness ==
    /\ pc = "done_cumulative_leap_seconds"
    /\ ret.searched
    /\ \E i \in 2..(Len(table) - 1) :
          /\ table[i].jd = arg
          /\ table[i].leap_seconds # 0
          /\ ret.item = i - 1

====
